---- MODULE Spec2Model ----
(***************************************************************************)
(* Model of the pdf-server MCP tools of src/src/index.ts:                  *)
(*   remove-pdf-pages, add-text-watermark, merge-pdfs.                     *)
(*                                                                         *)
(* A PDF document is the sequence of its pages.  A page records where it   *)
(* came from (src, num), its size and the watermark texts drawn on it.     *)
(* A file on disk is missing, unparsable, or holds a document.             *)
(*                                                                         *)
(* The file holds the TypeScript handlers (lines 1-199) and their compiled  *)
(* form (lines 201-406); they agree except that the compiled watermark     *)
(* handler takes a position argument, which the model follows.             *)
(*                                                                         *)
(* Every handler is an async function: the code between two awaits is one  *)
(* atomic action, and the continuations of different pending calls may be  *)
(* interleaved (the handlers take no lock and main() only connects the     *)
(* transport).                                                             *)
(***************************************************************************)
EXTENDS Integers, Sequences, FiniteSets, TLC

\* ---------------------------------------------------------------- bounds
\* number of tool calls the transport delivers in one run
MaxCalls == 2
\* largest page count of a document that is on disk initially
MaxInitPages == 3
\* longest pageNumbers / pdfPaths argument
MaxArgs == 2

Calls == 1..MaxCalls
Paths == {"a", "b", "c"}
Positions == {"center", "top", "bottom", "topLeft", "topRight", "bottomLeft", "bottomRight"}
WatermarkTexts == {"DRAFT"}
\* page numbers a caller may pass: 0 is below the range, MaxInitPages + 1 above it
PageNumberArgs == 0..(MaxInitPages + 1)

\* ------------------------------------------------------- program constants
textSize == 50
padding == 50

\* ------------------------------------------------------------- documents
NoPages == << >>
PageSize == [width |-> 600, height |-> 800]
DefaultPageSize == [width |-> 595, height |-> 842]

OriginalPage(p, k) == [src |-> p, num |-> k, size |-> PageSize, marks |-> << >>]
\* the page PDFDocument.addPage() creates when called without arguments
BlankPage == [src |-> "blank", num |-> 0, size |-> DefaultPageSize, marks |-> << >>]

OriginalDoc(p, n) == [k \in 1..n |-> OriginalPage(p, k)]

\* contents of a path: kind "missing" (ENOENT), "corrupt" (not a PDF), "pdf"
\* enc is the encoding of the data: "raw" bytes on disk, "base64" as a string
Missing == [kind |-> "missing", enc |-> "raw", pages |-> NoPages]
Corrupt == [kind |-> "corrupt", enc |-> "raw", pages |-> NoPages]
PdfFile(doc) == [kind |-> "pdf", enc |-> "raw", pages |-> doc]

\* fs.readFileSync(path, {encoding: 'base64'}): the bytes, base64-encoded
ToBase64(data) == [data EXCEPT !.enc = "base64"]
\* the decoding done by PDFDocument.load(string) and by
\* fs.writeFileSync(path, string, {encoding: 'base64'})
FromBase64(data) == [data EXCEPT !.enc = "raw"]

\* PDFDocument.load resolves for the base64 text of a PDF, rejects otherwise
LoadOk(data) == data.enc = "base64" /\ data.kind = "pdf"
Load(data) == FromBase64(data).pages

\* PDFDocument.save(): addDefaultPage defaults to true, so a document
\* without pages is serialized with one blank page
Save(doc) == IF Len(doc) = 0 THEN <<BlankPage>> ELSE doc

\* Buffer.from(bytes).toString('base64')
Serialize(doc) == ToBase64(PdfFile(Save(doc)))

\* ------------------------------------------------------- remove-pdf-pages
\* pageNumbers.filter(num => num < 1 || num > totalPages)
IsInvalidPageFromZero(num, totalPages) == num < 0 \/ num > totalPages

IsInvalidPage(num, totalPages) == num < 1 \/ num > totalPages

InvalidPages(pageNumbers, totalPages) ==
    SelectSeq(pageNumbers, LAMBDA num : IsInvalidPage(num, totalPages))

\* [...pageNumbers].sort((a, b) => b - a)
RECURSIVE InsertDesc(_, _)
InsertDesc(s, x) ==
    IF s = << >> THEN <<x>>
    ELSE IF x >= Head(s) THEN <<x>> \o s
    ELSE <<Head(s)>> \o InsertDesc(Tail(s), x)

RECURSIVE SortDescFrom(_, _)
SortDescFrom(acc, s) ==
    IF s = << >> THEN acc ELSE SortDescFrom(InsertDesc(acc, Head(s)), Tail(s))

SortIdentity(s) == s

SortDesc(s) == SortDescFrom(<< >>, s)

\* pdfDoc.removePage(index): throws on an empty document and on an index
\* outside 0..pageCount-1
RemovePageOk(doc, index) == Len(doc) > 0 /\ index >= 0 /\ index <= Len(doc) - 1

RemovePage(doc, index) ==
    [k \in 1..(Len(doc) - 1) |-> IF k <= index THEN doc[k] ELSE doc[k + 1]]

RECURSIVE RemovePagesLenient(_, _)
RemovePagesLenient(doc, nums) ==
    IF nums = << >> THEN [ok |-> TRUE, pages |-> doc]
    ELSE IF ~RemovePageOk(doc, Head(nums) - 1) THEN RemovePagesLenient(doc, Tail(nums))
    ELSE RemovePagesLenient(RemovePage(doc, Head(nums) - 1), Tail(nums))

\* for (const pageNum of sortedPageNumbers) pdfDoc.removePage(pageNum - 1)
RECURSIVE RemovePages(_, _)
RemovePages(doc, nums) ==
    IF nums = << >> THEN [ok |-> TRUE, pages |-> doc]
    ELSE IF ~RemovePageOk(doc, Head(nums) - 1) THEN [ok |-> FALSE, pages |-> doc]
    ELSE RemovePages(RemovePage(doc, Head(nums) - 1), Tail(nums))

\* ----------------------------------------------------- add-text-watermark
\* switch (position): the anchor of the text on a page of the given size
AnchorX(position, width) ==
    CASE position \in {"center", "top", "bottom"} -> (width \div 2) - 150
      [] position \in {"topLeft", "bottomLeft"} -> padding
      [] position \in {"topRight", "bottomRight"} -> width - 300
      [] OTHER -> 0

AnchorY(position, height) ==
    CASE position = "center" -> height \div 2
      [] position \in {"top", "topLeft", "topRight"} -> height - padding
      [] position \in {"bottom", "bottomLeft", "bottomRight"} -> padding + textSize
      [] OTHER -> 0

\* page.drawText(watermarkText, {x, y, size, ...})
DrawText(page, text, position) ==
    [page EXCEPT !.marks = Append(@, [text |-> text,
                                      x |-> AnchorX(position, page.size.width),
                                      y |-> AnchorY(position, page.size.height)])]

DrawAllButLast(doc, text, position) ==
    [k \in 1..Len(doc) |-> IF k < Len(doc) THEN DrawText(doc[k], text, position) ELSE doc[k]]

\* for (const page of pages) page.drawText(...)
DrawAll(doc, text, position) ==
    [k \in 1..Len(doc) |-> DrawText(doc[k], text, position)]

\* ------------------------------------------------------------- merge-pdfs
\* mergedPdf.copyPages(pdf, pdf.getPageIndices()): all pages, in index order
CopyPages(doc) == [k \in 1..Len(doc) |-> doc[k]]

AddPagesInFront(merged, copied) == copied \o merged

\* copiedPages.forEach((page) => mergedPdf.addPage(page))
AddPages(merged, copied) == merged \o copied

\* ------------------------------------------------------------------ state
VARIABLES
    files,   \* the file system: path -> contents
    calls    \* the tool calls: call -> arguments, position, locals, response

vars == <<files, calls>>

NoResult == [kind |-> "none", count |-> 0, invalid |-> << >>, total |-> 0, message |-> ""]

\* `Successfully removed ${pageNumbers.length} pages from the PDF.`
Removed(n) == [NoResult EXCEPT !.kind = "removed", !.count = n]
\* `Error: Invalid page numbers: ${...}. The document has ${totalPages} pages.`
InvalidNumbers(invalid, total) ==
    [NoResult EXCEPT !.kind = "invalid", !.invalid = invalid, !.total = total]
\* `Error processing PDF: ${errorMessage}`
ProcessingError(msg) == [NoResult EXCEPT !.kind = "processingError", !.message = msg]
\* `Successfully added text watermark to the PDF.`
Watermarked == [NoResult EXCEPT !.kind = "watermarked"]
\* `Successfully merged ${pdfPaths.length} PDFs into ${outputPath}`
Merged(n) == [NoResult EXCEPT !.kind = "merged", !.count = n]
\* `Error merging PDFs: ${errorMessage}`
MergeError(msg) == [NoResult EXCEPT !.kind = "mergeError", !.message = msg]

IsError(result) == result.kind \in {"invalid", "processingError", "mergeError"}

\* a call that has not arrived yet
NotCalled ==
    [tool |-> "none", pc |-> "idle",
     pdfPath |-> "", pageNumbers |-> << >>, watermarkText |-> "", position |-> "",
     pdfPaths |-> << >>, outputPath |-> "",
     pdfData |-> Missing,     \* what readFileSync returned (last read)
     pdfDoc |-> NoPages,      \* the document being transformed (pdfDoc, mergedPdf)
     copiedPages |-> NoPages, \* merge: the pages copyPages resolved with
     index |-> 0,             \* merge: how many of pdfPaths have been read
     written |-> Missing,     \* what writeFileSync put on disk
     wrote |-> FALSE,         \* writeFileSync was executed
     result |-> NoResult]

\* sequences over S of length 0..n
SeqsUpTo(S, n) == UNION {[1..k -> S] : k \in 0..n}

\* the file systems a run may start from: "a" holds a document, "b" holds a
\* document or bytes that are no PDF, "c" does not exist or holds one page
InitialContents(p) ==
    CASE p = "a" -> {PdfFile(OriginalDoc(p, n)) : n \in 1..MaxInitPages}
      [] p = "b" -> {Corrupt} \cup {PdfFile(OriginalDoc(p, n)) : n \in 1..MaxInitPages}
      [] OTHER   -> {Missing, PdfFile(OriginalDoc(p, 1))}

FileSystems ==
    {f \in [Paths -> UNION {InitialContents(p) : p \in Paths}] :
        \A p \in Paths : f[p] \in InitialContents(p)}

\* a call the client never sends
NotSent == [NotCalled EXCEPT !.pc = "unsent"]

\* the client sends MaxCalls calls, which may be pending together
Init ==
    /\ files \in {f \in FileSystems :
                    /\ f["a"] = PdfFile(OriginalDoc("a", MaxInitPages))
                    /\ f["b"] \in {Corrupt, PdfFile(OriginalDoc("b", 1))}
                    /\ f["c"] = Missing}
    /\ calls = [c \in Calls |-> NotCalled]

\* the client sends one call, on any of the initial file systems
InitOne ==
    /\ files \in FileSystems
    /\ calls = [c \in Calls |-> IF c = 1 THEN NotCalled ELSE NotSent]

\* requests are numbered in the order the transport delivers them
CanArrive(c) ==
    /\ calls[c].pc = "idle"
    /\ \A d \in Calls : d < c => calls[d].pc # "idle"

At(c, tool, pc) == calls[c].tool = tool /\ calls[c].pc = pc

Return(c, rec, result) ==
    calls' = [calls EXCEPT ![c] = [rec EXCEPT !.pc = "done", !.result = result]]

Goto(c, rec, pc) ==
    calls' = [calls EXCEPT ![c] = [rec EXCEPT !.pc = pc]]

\* fs.writeFileSync(path, base64, {encoding: 'base64'})
WriteFileSync(path, base64) == files' = [files EXCEPT ![path] = FromBase64(base64)]

\* ------------------------------------------------- remove-pdf-pages handler
\* the call arrives; runs to `await PDFDocument.load(pdfData)`
RemoveCall(c, pdfPath, pageNumbers) ==
    /\ CanArrive(c)
    /\ LET rec == [calls[c] EXCEPT !.tool = "remove", !.pdfPath = pdfPath,
                                   !.pageNumbers = pageNumbers]
       IN  IF files[pdfPath].kind = "missing"
           THEN Return(c, rec, ProcessingError("ENOENT"))
           ELSE Goto(c, [rec EXCEPT !.pdfData = ToBase64(files[pdfPath])], "load")
    /\ UNCHANGED files

\* load settled; validation, sort and the removal loop run to `await pdfDoc.save()`
RemoveLoaded(c) ==
    /\ At(c, "remove", "load")
    /\ LET rec == calls[c]
       IN  IF ~LoadOk(rec.pdfData)
           THEN Return(c, rec, ProcessingError("parse"))
           ELSE LET pdfDoc == Load(rec.pdfData)
                    totalPages == Len(pdfDoc)
                    invalidPages == InvalidPages(rec.pageNumbers, totalPages)
                    sortedPageNumbers == SortDesc(rec.pageNumbers)
                    removal == RemovePages(pdfDoc, sortedPageNumbers)
                IN  IF Len(invalidPages) > 0
                    THEN Return(c, rec, InvalidNumbers(invalidPages, totalPages))
                    ELSE IF ~removal.ok
                    THEN Return(c, rec, ProcessingError("removePage"))
                    ELSE Goto(c, [rec EXCEPT !.pdfDoc = removal.pages], "save")
    /\ UNCHANGED files

\* save resolved; the file is written and the success text returned
RemoveSaved(c) ==
    /\ At(c, "remove", "save")
    /\ LET rec == calls[c]
           modifiedPdfBase64 == Serialize(rec.pdfDoc)
       IN  /\ WriteFileSync(rec.pdfPath, modifiedPdfBase64)
           /\ Return(c, [rec EXCEPT !.written = FromBase64(modifiedPdfBase64), !.wrote = TRUE],
                     Removed(Len(rec.pageNumbers)))

\* ----------------------------------------------- add-text-watermark handler
\* the call arrives; runs to `await PDFDocument.load(pdfData)`
WatermarkCall(c, watermarkText, pdfPath, position) ==
    /\ CanArrive(c)
    /\ LET rec == [calls[c] EXCEPT !.tool = "watermark", !.pdfPath = pdfPath,
                                   !.watermarkText = watermarkText, !.position = position]
       IN  IF files[pdfPath].kind = "missing"
           THEN Return(c, rec, ProcessingError("ENOENT"))
           ELSE Goto(c, [rec EXCEPT !.pdfData = ToBase64(files[pdfPath])], "load")
    /\ UNCHANGED files

\* load settled; runs to `await pdfDoc.embedFont(...)`
WatermarkLoaded(c) ==
    /\ At(c, "watermark", "load")
    /\ LET rec == calls[c]
       IN  IF ~LoadOk(rec.pdfData)
           THEN Return(c, rec, ProcessingError("parse"))
           ELSE Goto(c, [rec EXCEPT !.pdfDoc = Load(rec.pdfData)], "font")
    /\ UNCHANGED files

\* the font is embedded; every page is drawn on; runs to `await pdfDoc.save()`
WatermarkFontEmbedded(c) ==
    /\ At(c, "watermark", "font")
    /\ LET rec == calls[c]
       IN  Goto(c, [rec EXCEPT !.pdfDoc = DrawAll(@, rec.watermarkText, rec.position)], "save")
    /\ UNCHANGED files

\* save resolved; the file is written and the success text returned
WatermarkSaved(c) ==
    /\ At(c, "watermark", "save")
    /\ LET rec == calls[c]
           modifiedPdfBase64 == Serialize(rec.pdfDoc)
       IN  /\ WriteFileSync(rec.pdfPath, modifiedPdfBase64)
           /\ Return(c, [rec EXCEPT !.written = FromBase64(modifiedPdfBase64), !.wrote = TRUE],
                     Watermarked)

\* ------------------------------------------------------- merge-pdfs handler
\* the call arrives; runs to `await PDFDocument.create()`
MergeCall(c, pdfPaths, outputPath) ==
    /\ CanArrive(c)
    /\ Goto(c, [calls[c] EXCEPT !.tool = "merge", !.pdfPaths = pdfPaths,
                                !.outputPath = outputPath], "create")
    /\ UNCHANGED files

MergeIterateFlushing(c) ==
    /\ calls[c].tool = "merge" /\ calls[c].pc \in {"create", "copy"}
    /\ LET rec == [calls[c] EXCEPT !.pdfDoc = AddPages(@, calls[c].copiedPages),
                                   !.copiedPages = NoPages]
       IN  IF rec.index < Len(rec.pdfPaths)
           THEN LET pdfPath == rec.pdfPaths[rec.index + 1]
                IN  IF files[pdfPath].kind = "missing"
                    THEN /\ WriteFileSync(rec.outputPath, Serialize(rec.pdfDoc))
                         /\ Return(c, [rec EXCEPT !.wrote = TRUE], MergeError("ENOENT"))
                    ELSE /\ Goto(c, [rec EXCEPT !.index = @ + 1,
                                                !.pdfData = ToBase64(files[pdfPath])], "load")
                         /\ UNCHANGED files
           ELSE Goto(c, rec, "save") /\ UNCHANGED files

\* create or copyPages resolved: the copied pages are added, then the loop
\* reads the next path and runs to `await PDFDocument.load(pdfData)`, or,
\* after the last path, to `await mergedPdf.save()`
MergeIterate(c) ==
    /\ calls[c].tool = "merge" /\ calls[c].pc \in {"create", "copy"}
    /\ LET rec == [calls[c] EXCEPT !.pdfDoc = AddPages(@, calls[c].copiedPages),
                                   !.copiedPages = NoPages]
       IN  IF rec.index < Len(rec.pdfPaths)
           THEN LET pdfPath == rec.pdfPaths[rec.index + 1]
                IN  IF files[pdfPath].kind = "missing"
                    THEN Return(c, rec, MergeError("ENOENT"))
                    ELSE Goto(c, [rec EXCEPT !.index = @ + 1,
                                             !.pdfData = ToBase64(files[pdfPath])], "load")
           ELSE Goto(c, rec, "save")
    /\ UNCHANGED files

\* load settled; runs to `await mergedPdf.copyPages(pdf, pdf.getPageIndices())`
MergeLoaded(c) ==
    /\ At(c, "merge", "load")
    /\ LET rec == calls[c]
       IN  IF ~LoadOk(rec.pdfData)
           THEN Return(c, rec, MergeError("parse"))
           ELSE LET pdf == Load(rec.pdfData)
                IN  Goto(c, [rec EXCEPT !.copiedPages = CopyPages(pdf)], "copy")
    /\ UNCHANGED files

\* save resolved; the output file is written and the success text returned
MergeSaved(c) ==
    /\ At(c, "merge", "save")
    /\ LET rec == calls[c]
           mergedPdfBase64 == Serialize(rec.pdfDoc)
       IN  /\ WriteFileSync(rec.outputPath, mergedPdfBase64)
           /\ Return(c, [rec EXCEPT !.written = FromBase64(mergedPdfBase64), !.wrote = TRUE],
                     Merged(Len(rec.pdfPaths)))

\* ------------------------------------------------------------ specification
Next ==
    \E c \in Calls :
        \/ \E pdfPath \in Paths, pageNumbers \in SeqsUpTo(PageNumberArgs, MaxArgs) :
               RemoveCall(c, pdfPath, pageNumbers)
        \/ RemoveLoaded(c)
        \/ RemoveSaved(c)
        \/ \E watermarkText \in WatermarkTexts, pdfPath \in Paths, position \in Positions :
               WatermarkCall(c, watermarkText, pdfPath, position)
        \/ WatermarkLoaded(c)
        \/ WatermarkFontEmbedded(c)
        \/ WatermarkSaved(c)
        \/ \E pdfPaths \in SeqsUpTo(Paths, MaxArgs), outputPath \in Paths :
               MergeCall(c, pdfPaths, outputPath)
        \/ MergeIterate(c)
        \/ MergeLoaded(c)
        \/ MergeSaved(c)

Spec == Init /\ [][Next]_vars

SpecOne == InitOne /\ [][Next]_vars

\* ------------------------------------------------------------- properties
Range(s) == {s[i] : i \in 1..Len(s)}

IsRemove(c) == calls[c].tool = "remove"
IsWatermark(c) == calls[c].tool = "watermark"
IsMerge(c) == calls[c].tool = "merge"
Returned(c) == calls[c].pc = "done"

\* the call read a PDF from its pdfPath
ReadPdf(c) == calls[c].pdfData.kind = "pdf"
\* the pages of the document the call loaded, and their number
Original(c) == calls[c].pdfData.pages
TotalPages(c) == Len(Original(c))

InRange(c) == \A i \in 1..Len(calls[c].pageNumbers) :
                  calls[c].pageNumbers[i] \in 1..TotalPages(c)
Distinct(s) == \A i, j \in 1..Len(s) : i # j => s[i] # s[j]

\* the pages of doc whose 1-based number is not in S, in their order
KeepOthers(doc, S) ==
    LET keep[k \in 0..Len(doc)] ==
            IF k = 0 THEN << >>
            ELSE IF k \in S THEN keep[k - 1] ELSE Append(keep[k - 1], doc[k])
    IN  keep[Len(doc)]

\* the pages of the files named by paths, one file after the other
ConcatPages(fs, paths) ==
    LET cat[k \in 0..Len(paths)] ==
            IF k = 0 THEN << >> ELSE cat[k - 1] \o fs[paths[k]].pages
    IN  cat[Len(paths)]

SumPages(fs, paths) ==
    LET sum[k \in 0..Len(paths)] ==
            IF k = 0 THEN 0 ELSE sum[k - 1] + Len(fs[paths[k]].pages)
    IN  sum[Len(paths)]

\* C1: a remove-pdf-pages call whose pageNumbers all lie in 1..T, duplicates
\* allowed, succeeds and writes a document of T minus the number of distinct
\* page numbers pages.
C1_RemovesDistinctCount ==
    \A c \in Calls :
        (IsRemove(c) /\ Returned(c) /\ ReadPdf(c) /\ InRange(c)) =>
            /\ calls[c].result.kind = "removed"
            /\ Len(calls[c].written.pages)
                 = TotalPages(c) - Cardinality(Range(calls[c].pageNumbers))

\* C2: when some entry of pageNumbers is < 1 or > T, the response names
\* exactly the out-of-range entries and T, nothing is removed and the file
\* is not written.
C2_InvalidNumbersReported ==
    \A c \in Calls :
        LET nums == calls[c].pageNumbers
            T == TotalPages(c)
            bad == {i \in 1..Len(nums) : nums[i] < 1 \/ nums[i] > T}
            res == calls[c].result
        IN  (IsRemove(c) /\ Returned(c) /\ ReadPdf(c) /\ bad # {}) =>
                /\ res.kind = "invalid"
                /\ res.total = T
                /\ Len(res.invalid) = Cardinality(bad)
                /\ Range(res.invalid) = {nums[i] : i \in bad}
                /\ ~calls[c].wrote
                /\ files[calls[c].pdfPath] = PdfFile(Original(c))

C2_Witness ==
    \E c \in Calls :
        /\ IsRemove(c) /\ Returned(c) /\ ReadPdf(c)
        /\ TotalPages(c) = 3
        /\ calls[c].pageNumbers = <<2, 4>>
        /\ calls[c].result = InvalidNumbers(<<4>>, 3)

\* C3: only the step that returns a tool's success response writes a file:
\* every other step of a call, and so every step of a call that ends in an
\* error response, leaves all files as they are.
C3_ErrorsWriteNothing ==
    [][\A c \in Calls :
          (calls'[c] # calls[c] /\ (IsError(calls'[c].result) \/ calls'[c].pc # "done")) =>
              (files' = files /\ ~calls'[c].wrote)]_vars

\* a merge fails on its second path after an earlier call has written
C3_Witness ==
    \E c, d \in Calls :
        /\ c # d
        /\ calls[c].wrote
        /\ IsMerge(d) /\ Returned(d) /\ calls[d].index = 1
        /\ calls[d].result = MergeError("ENOENT")
        /\ Len(calls[d].pdfDoc) > 0

C5_MergeKeepsInputs ==
    [][\A c \in Calls :
          (IsMerge(c) /\ calls'[c] # calls[c]) =>
              \A p \in Range(calls[c].pdfPaths) : files'[p] = files[p]]_vars

\* C6: a merge-pdfs call with an empty pdfPaths, or with a path that does
\* not exist, returns 'Error merging PDFs' and does not write outputPath.
C6_EmptyOrMissingFails ==
    \A c \in Calls :
        (/\ IsMerge(c) /\ Returned(c)
         /\ \/ calls[c].pdfPaths = << >>
            \/ \E p \in Range(calls[c].pdfPaths) : files[p].kind = "missing") =>
            (calls[c].result.kind = "mergeError" /\ ~calls[c].wrote)

\* C7: two calls on the same path never overlap, so no update is lost: when
\* a remove-pdf-pages or add-text-watermark call writes its file, the file
\* still holds what that call read (no other call wrote it in between).
AboutToWrite(c) == calls[c].tool \in {"remove", "watermark"} /\ calls[c].pc = "save"

C7_NoLostUpdate ==
    [][\A c \in Calls :
          (AboutToWrite(c) /\ calls'[c].pc = "done") =>
              files[calls[c].pdfPath] = FromBase64(calls[c].pdfData)]_vars

\* C8: a successful add-text-watermark call on N pages writes back the same
\* N pages in the same order, each with the text drawn on it exactly once.
C8_WatermarkKeepsPages ==
    \A c \in Calls :
        (IsWatermark(c) /\ calls[c].result.kind = "watermarked") =>
            LET old == Original(c)
                new == files[calls[c].pdfPath].pages
            IN  /\ calls[c].position \in Positions
                /\ Len(new) = Len(old)
                /\ \A k \in 1..Len(old) :
                      /\ new[k].src = old[k].src /\ new[k].num = old[k].num
                      /\ new[k].size = old[k].size
                      /\ Len(new[k].marks) = Len(old[k].marks) + 1
                      /\ new[k].marks[Len(new[k].marks)].text = calls[c].watermarkText
                      /\ SubSeq(new[k].marks, 1, Len(old[k].marks)) = old[k].marks

C8_Witness ==
    \E c \in Calls :
        /\ IsWatermark(c) /\ calls[c].result.kind = "watermarked"
        /\ calls[c].position = "bottomRight"
        /\ TotalPages(c) = 3
        /\ \A k \in 1..3 : Len(files[calls[c].pdfPath].pages[k].marks) = 1

====
